---- MODULE Spec2Model ----
(***************************************************************************)
(* march::python::WrapBase (libmarch/include/march/python/WrapBase.hpp).   *)
(*                                                                         *)
(* WrapBase<Wrapper, Wrapped, Holder> keeps one function-local static      *)
(* `derived` per wrapper type inside commit(); its constructor declares    *)
(* the pybind11 class in the module it is given and stores the class       *)
(* handle in m_cls.  def, def_property, def_property_readonly and          *)
(* def_property_readonly_static forward to m_cls and return *this.         *)
(*                                                                         *)
(* The initialisation of a function-local static is guarded (C++11         *)
(* [stmt.dcl]): the first thread to reach the declaration runs the         *)
(* constructor, threads arriving meanwhile wait, a constructor that exits  *)
(* by an exception leaves the variable uninitialised and the next thread   *)
(* through the declaration tries again.  The model makes the guard         *)
(* explicit.  A commit() call is a thread's test of the guard (CommitCall, *)
(* and CommitWake after a wait) and, for the thread that took the guard,   *)
(* the constructor with the release or reset of the guard that follows it  *)
(* (CommitCtor); nothing another thread can observe lies between the steps *)
(* merged into one action.  def*(), the copy constructor and the copy       *)
(* assignment are one step each.                                           *)
(***************************************************************************)
EXTENDS Integers, Sequences, FiniteSets, TLC

\* ------------------------------------------------------------------ bounds
NumThreads == 2     \* threads calling into the wrapper
MaxCalls   == 4     \* calls (commit, def*, copy, assignment) made over a run
MaxCopies  == 1     \* objects made with the defaulted copy constructor

\* ----------------------------------------------------------------- domains
Threads == 1..NumThreads
Types   == {"T1", "T2"}              \* instantiations of the WrapBase template
\* The (mod, pyname, clsdoc) triples callers pass to commit(): two names, in
\* two modules, with two docs.
CallArgs == {<<"M1", "Vector", "doc1">>, <<"M2", "Matrix", "doc2">>}
\* The methods DECL_MARCH_PYBIND_CLASS_METHOD generates.
Methods == {"def", "def_property", "def_property_readonly",
            "def_property_readonly_static"}
\* The (METHOD, member name) pairs callers register: every method, and the
\* names "a" and "b" under two methods each; a caller may repeat a pair.
MemberCalls == {<<"def", "a">>, <<"def", "b">>, <<"def_property", "a">>,
                <<"def_property_readonly", "b">>,
                <<"def_property_readonly_static", "c">>}
Errors  == {"NameTaken", "InvalidModule"}   \* what pybind11::class_ throws
None    == "None"

\* An object of a wrapper type is named by where it lives: the static
\* `derived` of commit() for type T is named T, a copy "copy1", "copy2", ...
CopyName(i) == "copy" \o ToString(i)
CopyIds == {CopyName(i) : i \in 1..MaxCopies}
Objects == Types \cup CopyIds

\* Storage holding no object, and a thread outside commit().
NoObj  == [type |-> None, m_cls |-> 0]
NoArgs == [type |-> None, mod |-> None, pyname |-> None, clsdoc |-> None]

VARIABLES
    guard,      \* guard[T]: initialisation guard of commit()'s static
    objs,       \* objs[o]: NoObj (no object there) or [type, m_cls]
    classes,    \* classes declared in the host modules, in order of declaration
    pc,         \* pc[t]: where thread t is inside commit()
    args,       \* args[t]: NoArgs or the arguments of t's running commit() call
    ref,        \* ref[t]: the wrapper object t holds a reference to, or None
    exc,        \* exc[t]: the exception that left t's last commit() call, or None
    ncalls,     \* calls made so far
    declLog,    \* history: declLog[T], the outcomes of the class_ constructor calls
                \* made for type T, in order
    retLog,     \* history: retLog[T], every return of T's commit(): its arguments
                \* and result, in order
    memberLog,  \* history: memberLog[T], every def*() call made on an object of
                \* type T, in order
    raced       \* history: the types whose commit() was called while another
                \* thread was constructing the static

vars == <<guard, objs, classes, pc, args, ref, exc, ncalls,
          declLog, retLog, memberLog, raced>>

\* ------------------------------------------------------- the static's guard
\* `derived` declared without `static`: every call constructs it again.
GuardEnterNoStatic(g) ==
    IF g = "pending" THEN "wait" ELSE "init"

\* A guard that is not thread-safe and tests only "initialised": a thread
\* arriving while another one constructs runs the constructor too.
GuardEnterRacy(g) ==
    IF g = "done" THEN "skip" ELSE "init"

\* A guard that is not thread-safe: a thread arriving while another one
\* constructs goes on to use the static.
GuardEnterUnsafe(g) ==
    IF g = "uninit" THEN "init" ELSE "skip"

\* What a thread reaching `static wrapper_type derived(...)` does.
GuardEnter(g) ==
    CASE g = "done"    -> "skip"     \* already initialised: no constructor call
      [] g = "uninit"  -> "init"     \* this thread runs the constructor
      [] g = "pending" -> "wait"     \* another thread is constructing: block

\* The guard is never marked initialised.
GuardReleaseStale == "uninit"

\* The guard after the constructor returned normally.
GuardRelease == "done"

\* A failed construction marks the static initialised all the same.
GuardAbortPoisoned == "done"

\* A failed construction leaves the guard taken.
GuardAbortStuck == "pending"

\* The guard after the constructor exited by an exception.
GuardAbort == "uninit"

\* One static shared by every instantiation of the template.
derivedShared(T) == "T1"

\* The object commit() returns a reference to.
derived(T) == T

\* The exception is caught inside commit() and dropped.
PropagateSwallowed(e) == None

\* What leaves commit() when the constructor of the static throws e.
Propagate(e) == e

\* ------------------------------------------------------- pybind11::class_
\* Whether a class called pyname is already defined in module mod.
NameDefined(cls, mod, pyname) ==
    \E i \in 1..Len(cls) : cls[i].mod = mod /\ cls[i].name = pyname

\* Outcomes of pybind11::class_<wrapped_type, holder_type>(mod, pyname, clsdoc):
\* "ok", or the error it throws.  The host rejects a name already defined in
\* the module, and may reject any declaration for reasons of its own.
ClassOutcomes(cls, mod, pyname) ==
    IF NameDefined(cls, mod, pyname) THEN {"NameTaken"}
    ELSE {"ok", "InvalidModule"}

\* The class is declared in no module: mod is not passed on.
NewClassNoModule(T, mod, pyname, clsdoc) ==
    [wrapped |-> T, mod |-> None, name |-> pyname, doc |-> clsdoc,
     members |-> <<>>]

\* The class record pybind11::class_ adds to the module.
NewClass(T, mod, pyname, clsdoc) ==
    [wrapped |-> T, mod |-> mod, name |-> pyname, doc |-> clsdoc,
     members |-> <<>>]

\* The new member is put in front of the ones registered before.
ForwardFront(members, method, name) ==
    <<[method |-> method, name |-> name]>> \o members

\* A member whose name is registered already is dropped.
ForwardOnce(members, method, name) ==
    IF \E i \in DOMAIN members : members[i].name = name
    THEN members
    ELSE Append(members, [method |-> method, name |-> name])

\* m_cls.METHOD(std::forward<Args>(args)...): the member table after the call.
Forward(members, method, name) ==
    Append(members, [method |-> method, name |-> name])

\* The method returns the static of commit() instead of the object it was
\* called on.
MethodReturnStatic(this, T) == derived(T)

\* return *static_cast<wrapper_type*>(this);  (this is an object of type T)
MethodReturn(this, T) == this

\* ------------------------------------------------------------------- Init
Init ==
    /\ guard = [T \in Types |-> "uninit"]
    /\ objs = [o \in Objects |-> NoObj]
    /\ classes = <<>>
    /\ pc = [t \in Threads |-> "idle"]
    /\ args = [t \in Threads |-> NoArgs]
    /\ ref = [t \in Threads |-> None]
    /\ exc = [t \in Threads |-> None]
    /\ ncalls = 0
    /\ declLog = [T \in Types |-> <<>>]
    /\ retLog = [T \in Types |-> <<>>]
    /\ memberLog = [T \in Types |-> <<>>]
    /\ raced = {}

\* ----------------------------------------------------------------- commit
\* return derived;  (thread t leaves a commit() call made with arguments a)
Returned(t, a) ==
    /\ ref' = [ref EXCEPT ![t] = derived(a.type)]
    /\ retLog' = [retLog EXCEPT ![a.type] =
                    Append(@, [call |-> a, obj |-> derived(a.type)])]
    /\ pc' = [pc EXCEPT ![t] = "idle"]
    /\ args' = [args EXCEPT ![t] = NoArgs]

\* Thread t, in commit() with arguments a, tests the guard of the static:
\* it finds the static initialised and returns it, or takes the guard to run
\* the constructor, or finds another thread constructing and waits.
GuardStep(t, a) ==
    LET e == GuardEnter(guard[a.type])
    IN  CASE e = "skip" -> /\ guard' = guard
                           /\ Returned(t, a)
          [] e = "init" -> /\ guard' = [guard EXCEPT ![a.type] = "pending"]
                           /\ pc' = [pc EXCEPT ![t] = "ctor"]
                           /\ args' = [args EXCEPT ![t] = a]
                           /\ UNCHANGED <<ref, retLog>>
          [] e = "wait" -> /\ guard' = guard
                           /\ pc' = [pc EXCEPT ![t] = "wait"]
                           /\ args' = [args EXCEPT ![t] = a]
                           /\ UNCHANGED <<ref, retLog>>

\* A thread calls Wrapper::commit(mod, pyname, clsdoc) and reaches the
\* declaration of the static.
CommitCall(t, T, mod, pyname, clsdoc) ==
    /\ pc[t] = "idle"
    /\ ncalls < MaxCalls
    /\ GuardStep(t, [type |-> T, mod |-> mod, pyname |-> pyname,
                     clsdoc |-> clsdoc])
    /\ exc' = [exc EXCEPT ![t] = None]
    /\ ncalls' = ncalls + 1
    /\ raced' = IF guard[T] = "pending" THEN raced \cup {T} ELSE raced
    /\ UNCHANGED <<objs, classes, declLog, memberLog>>

\* A thread that waited on the guard is woken (the constructing thread has
\* released or reset the guard) and tests the guard again.
CommitWake(t) ==
    /\ pc[t] = "wait"
    /\ GuardEnter(guard[args[t].type]) # "wait"
    /\ GuardStep(t, args[t])
    /\ UNCHANGED <<objs, classes, exc, ncalls, declLog, memberLog, raced>>

\* WrapBase(mod, pyname, clsdoc) : m_cls(pybind11::class_<...>(mod, pyname, clsdoc))
\* run by the thread holding the guard.  When the constructor returns the
\* static is marked initialised and commit() returns it; when it throws the
\* guard is reset and the exception leaves commit().
CommitCtor(t) ==
    /\ pc[t] = "ctor"
    /\ LET a == args[t]
       IN \E r \in ClassOutcomes(classes, a.mod, a.pyname) :
            /\ declLog' = [declLog EXCEPT ![a.type] = Append(@, r)]
            /\ IF r = "ok"
               THEN /\ classes' = Append(classes,
                                    NewClass(a.type, a.mod, a.pyname, a.clsdoc))
                    /\ objs' = [objs EXCEPT ![derived(a.type)] =
                                  [type |-> a.type, m_cls |-> Len(classes) + 1]]
                    /\ guard' = [guard EXCEPT ![a.type] = GuardRelease]
                    /\ Returned(t, a)
                    /\ exc' = exc
               ELSE /\ guard' = [guard EXCEPT ![a.type] = GuardAbort]
                    /\ exc' = [exc EXCEPT ![t] = Propagate(r)]
                    /\ pc' = [pc EXCEPT ![t] = "idle"]
                    /\ args' = [args EXCEPT ![t] = NoArgs]
                    /\ UNCHANGED <<classes, objs, ref, retLog>>
    /\ UNCHANGED <<ncalls, memberLog, raced>>

\* ------------------------------------------------ def, def_property, ...
\* wrapper_type & METHOD(Args&&... args), called on the object t refers to.
Member(t, method, name) ==
    /\ pc[t] = "idle"
    /\ ref[t] # None
    /\ ncalls < MaxCalls
    /\ LET this == ref[t]
           h == objs[this].m_cls
       IN  /\ classes' = [classes EXCEPT ![h].members =
                             Forward(@, method, name)]
           /\ ref' = [ref EXCEPT ![t] = MethodReturn(this, objs[this].type)]
           /\ memberLog' = [memberLog EXCEPT ![objs[this].type] =
                 Append(@, [this |-> this, method |-> method, name |-> name])]
    /\ ncalls' = ncalls + 1
    /\ UNCHANGED <<guard, objs, pc, args, exc, declLog, retLog, raced>>

\* WrapBase(WrapBase const &) = default: t copies the wrapper_type object it
\* refers to, m_cls included, and from then on uses the copy.
Copy(t) ==
    /\ pc[t] = "idle"
    /\ ref[t] # None
    /\ ncalls < MaxCalls
    /\ \E i \in 1..MaxCopies :
         /\ objs[CopyName(i)] = NoObj
         /\ \A j \in 1..(i - 1) : objs[CopyName(j)] # NoObj
         /\ objs' = [objs EXCEPT ![CopyName(i)] = objs[ref[t]]]
         /\ ref' = [ref EXCEPT ![t] = CopyName(i)]
    /\ ncalls' = ncalls + 1
    /\ UNCHANGED <<guard, classes, pc, args, exc, declLog, retLog, memberLog,
                   raced>>

\* WrapBase & operator=(WrapBase const &) = default: t assigns to the object
\* it refers to from another object of the same wrapper type; m_cls is the
\* only member there is to assign.
CopyAssign(t, src) ==
    /\ pc[t] = "idle"
    /\ ref[t] # None
    /\ ncalls < MaxCalls
    /\ src # ref[t]
    /\ objs[src] # NoObj
    /\ objs[src].type = objs[ref[t]].type
    /\ objs' = [objs EXCEPT ![ref[t]].m_cls = objs[src].m_cls]
    /\ ncalls' = ncalls + 1
    /\ UNCHANGED <<guard, classes, pc, args, ref, exc, declLog, retLog,
                   memberLog, raced>>

\* ------------------------------------------------------------------- Next
Next ==
    \/ \E t \in Threads, T \in Types, a \in CallArgs :
          CommitCall(t, T, a[1], a[2], a[3])
    \/ \E t \in Threads : CommitWake(t)
    \/ \E t \in Threads : CommitCtor(t)
    \/ \E t \in Threads, m \in MemberCalls : Member(t, m[1], m[2])
    \/ \E t \in Threads : Copy(t)
    \/ \E t \in Threads, src \in Objects : CopyAssign(t, src)

Spec == Init /\ [][Next]_vars

\* The same operations with every call passing the same arguments: whether a
\* commit() call ends depends on the guard and on the class_ constructor
\* returning or throwing (a name clash between the two types, or another
\* host error), not on the values passed.
FairNext ==
    \/ \E t \in Threads, T \in Types : CommitCall(t, T, "M1", "Vector", "doc1")
    \/ \E t \in Threads : CommitWake(t)
    \/ \E t \in Threads : CommitCtor(t)
    \/ \E t \in Threads : Member(t, "def", "a")
    \/ \E t \in Threads : Copy(t)
    \/ \E t \in Threads, src \in Objects : CopyAssign(t, src)

\* A thread inside commit() keeps running: the guard wakes its waiters when
\* the constructing thread releases or resets it, and the class_ constructor
\* returns or throws.
Fairness == \A t \in Threads : WF_vars(CommitWake(t)) /\ WF_vars(CommitCtor(t))
FairSpec == Init /\ [][FairNext]_vars /\ Fairness

\* ------------------------------------------------------ reading the state
\* The state of the spec's state machine for type T.
Unconstructed(T) == guard[T] = "uninit"
Constructing(T)  == guard[T] = "pending"
Registered(T)    == guard[T] = "done"

\* The class_ constructor calls made for T, and those that succeeded or threw.
DeclCalls(T)   == DOMAIN declLog[T]
OkDecls(T)     == {i \in DeclCalls(T) : declLog[T][i] = "ok"}
FailedDecls(T) == {i \in DeclCalls(T) : declLog[T][i] # "ok"}

\* The classes declared for T (indices into classes).
ClassesOf(T) == {h \in DOMAIN classes : classes[h].wrapped = T}

\* The objects commit() has returned for T.
ReturnedObjs(T) == {retLog[T][i].obj : i \in DOMAIN retLog[T]}

\* ------------------------------------------------------------------ C1
\* C1 as stated: once two commit() calls for T have returned, they returned
\* the same object and exactly one class_ constructor call was made for T.
C1_TwoCallsOneDeclareCall ==
    \A T \in Types :
        Len(retLog[T]) >= 2 =>
            /\ Cardinality(ReturnedObjs(T)) = 1
            /\ Cardinality(DeclCalls(T)) = 1

\* C1 amended: once two commit() calls for T have returned, they returned the
\* same object, exactly one class_ constructor call for T succeeded, and it
\* is the last one made for T: every other one threw, before it.
C1_TwoCallsOneInstance ==
    \A T \in Types :
        Len(retLog[T]) >= 2 =>
            /\ Cardinality(ReturnedObjs(T)) = 1
            /\ OkDecls(T) = {Len(declLog[T])}

\* Two calls for T1 with different arguments returned, after a failed first
\* attempt.
C1_Witness ==
    /\ Len(retLog["T1"]) >= 2
    /\ retLog["T1"][1].call # retLog["T1"][2].call
    /\ Len(declLog["T1"]) = 2

\* ------------------------------------------------------------------ C2
\* Every thread has made one call, commit() for T, at least one of them
\* while another was constructing, and all the calls are over.
RacedOnce(T) ==
    /\ T \in raced
    /\ ncalls = NumThreads
    /\ \A t \in Threads : pc[t] = "idle" /\ (ref[t] = derived(T) \/ exc[t] # None)
    /\ \A U \in Types \ {T} : declLog[U] = <<>> /\ retLog[U] = <<>>

\* C2 as stated: after N threads raced through their first commit() for T,
\* one class_ constructor call was made and all N calls returned the same
\* object.
C2_RaceOneDeclareCall ==
    \A T \in Types :
        RacedOnce(T) =>
            /\ Cardinality(DeclCalls(T)) = 1
            /\ Len(retLog[T]) = NumThreads
            /\ Cardinality(ReturnedObjs(T)) = 1

\* C2 amended: after N threads raced through their first commit() for T, at
\* most one class_ constructor call succeeded, as the last one made; a call
\* returned unless its own class_ constructor call threw; the calls that
\* returned returned the same object; and with no constructor call throwing
\* there was one constructor call and all N calls returned.
C2_RaceOneInstance ==
    \A T \in Types :
        RacedOnce(T) =>
            /\ OkDecls(T) \subseteq {Len(declLog[T])}
            /\ Len(retLog[T]) = NumThreads - Cardinality(FailedDecls(T))
            /\ Cardinality(ReturnedObjs(T)) <= 1
            /\ (retLog[T] # <<>> => OkDecls(T) # {})
            /\ (FailedDecls(T) = {} =>
                   Cardinality(DeclCalls(T)) = 1 /\ Len(retLog[T]) = NumThreads)

\* The race happened and every call returned.
C2_Witness ==
    /\ RacedOnce("T1")
    /\ Len(retLog["T1"]) = NumThreads

\* ------------------------------------------------------------------ C3
\* C3: a class_ constructor call for T that throws leaves T Unconstructed,
\* with no object built and nothing returned; a commit() call that then
\* reaches the guard of an Unconstructed T after failed attempts takes it and
\* goes on to construct; a thread constructing calls the class_ constructor;
\* and a class_ constructor call that succeeds leaves T Registered.
C3_FailedDeclareRetries ==
    [][\A T \in Types :
         LET n == Len(declLog[T])
         IN  /\ Len(declLog'[T]) # n =>
                  /\ Len(declLog'[T]) = n + 1
                  /\ IF declLog'[T][n + 1] = "ok"
                     THEN /\ Registered(T)'
                          /\ objs'[derived(T)].m_cls \in ClassesOf(T)'
                     ELSE /\ Unconstructed(T)'
                          /\ objs'[derived(T)] = NoObj
                          /\ retLog'[T] = retLog[T]
             /\ \A t \in Threads :
                  /\ ( /\ pc[t] \in {"idle", "wait"}
                       /\ pc'[t] # pc[t]
                       /\ args'[t].type = T
                       /\ Unconstructed(T)
                       /\ FailedDecls(T) # {} )
                     => pc'[t] = "ctor" /\ Constructing(T)'
                  /\ (pc[t] = "ctor" /\ args[t].type = T /\ pc'[t] # "ctor")
                     => Len(declLog'[T]) = n + 1
    ]_vars

\* The first attempt for T1 failed, the second one succeeded.
C3_Witness ==
    /\ declLog["T1"] = <<"InvalidModule", "ok">>
    /\ Registered("T1")
    /\ Len(retLog["T1"]) = 1

\* ------------------------------------------------------------------ C4
\* C4: every class in the host modules is the one class of a type whose
\* commit() has returned, and it has the module, name and doc of the first
\* call that returned, the one that constructed it, whatever later calls
\* pass.
C4_LaterArgumentsIgnored ==
    /\ \A T \in Types :
         retLog[T] # <<>> =>
             /\ Cardinality(ClassesOf(T)) = 1
             /\ objs[derived(T)].m_cls \in ClassesOf(T)
    /\ \A h \in DOMAIN classes :
         LET T == classes[h].wrapped
         IN  /\ retLog[T] # <<>>
             /\ classes[h].mod  = retLog[T][1].call.mod
             /\ classes[h].name = retLog[T][1].call.pyname
             /\ classes[h].doc  = retLog[T][1].call.clsdoc

\* commit(M1, "Vector", "doc1") then commit(M2, "Matrix", "doc2") for T1,
\* both returned.
C4_Witness ==
    /\ Len(retLog["T1"]) >= 2
    /\ retLog["T1"][1].call.clsdoc = "doc1"
    /\ retLog["T1"][2].call.clsdoc = "doc2"
    /\ retLog["T1"][2].call.pyname = "Matrix"
    /\ \E h \in ClassesOf("T1") :
         classes[h].name = "Vector" /\ classes[h].doc = "doc1"

\* ------------------------------------------------------------------ C5
\* The def*() calls made on the objects holding class h, in the order made.
RECURSIVE CallsOn(_, _)
CallsOn(log, h) ==
    IF log = <<>> THEN <<>>
    ELSE LET e == log[Len(log)]
             front == CallsOn(SubSeq(log, 1, Len(log) - 1), h)
         IN  IF objs[e.this].m_cls = h
             THEN Append(front, [method |-> e.method, name |-> e.name])
             ELSE front

\* C5: the member table of every class is the sequence of def*() calls made
\* on the objects holding it, in the order they were made, every call once.
C5_MembersInCallOrder ==
    \A h \in DOMAIN classes :
        classes[h].members = CallsOn(memberLog[classes[h].wrapped], h)

\* def("a"), def("b"), def("a") were registered on T1, in that order.
C5_Witness ==
    \E h \in ClassesOf("T1") :
        /\ Len(classes[h].members) = 3
        /\ classes[h].members[1] = [method |-> "def", name |-> "a"]
        /\ classes[h].members[2] = [method |-> "def", name |-> "b"]
        /\ classes[h].members[3] = [method |-> "def", name |-> "a"]

\* ------------------------------------------------------------------ C6
\* C6: a def*() call leaves every thread's reference where it was, the
\* caller's reference being to the object the call was made on; so a thread
\* that has not copied the object still refers to what commit() returned.
C6_MethodReturnsThis ==
    [][\A T \in Types :
         Len(memberLog'[T]) > Len(memberLog[T]) =>
             LET this == memberLog'[T][Len(memberLog'[T])].this
             IN  /\ \A t \in Threads : ref'[t] = ref[t]
                 /\ \E t \in Threads : ref'[t] = this
                 /\ objs'[this].type = T
                 /\ (this \in Types => this \in ReturnedObjs(T))
    ]_vars

\* def*() was called on what commit() returned for T1 and then on a copy
\* of it.
C6_Witness ==
    /\ Len(memberLog["T1"]) = 2
    /\ memberLog["T1"][1].this = derived("T1")
    /\ memberLog["T1"][2].this \in CopyIds
    /\ \E t \in Threads : ref[t] \in CopyIds

\* ------------------------------------------------------------------ C7
\* C7: every object commit() has returned for T is a constructed object
\* holding T's class, T is Registered, and a class_ constructor call for T
\* has succeeded; the same goes for every reference a thread holds.
C7_NoPartialInstance ==
    /\ \A T \in Types : \A i \in DOMAIN retLog[T] :
         /\ Registered(T)
         /\ OkDecls(T) # {}
         /\ objs[retLog[T][i].obj].m_cls \in ClassesOf(T)
    /\ \A t \in Threads :
         ref[t] # None => objs[ref[t]].m_cls \in DOMAIN classes

\* A call for T1 arrived while another thread was constructing, and both
\* have returned.
C7_Witness ==
    /\ "T1" \in raced
    /\ Len(retLog["T1"]) = 2
    /\ \A t \in Threads : ref[t] = derived("T1")

\* ------------------------------------------------------------------ C8
\* C8: under FairSpec every thread inside commit() leaves it, by a return or
\* by the exception of its own class_ constructor call, and the calls for T
\* that returned all returned one object.
C8_EveryCallEnds ==
    /\ \A t \in Threads : (pc[t] # "idle") ~> (pc[t] = "idle")
    /\ [](\A T \in Types : Cardinality(ReturnedObjs(T)) <= 1)

\* A thread waited on the guard of T1 while a construction failed, and all
\* calls are over with T1 constructed.
C8_Witness ==
    /\ "T1" \in raced
    /\ declLog["T1"] = <<"InvalidModule", "ok">>
    /\ \A t \in Threads : pc[t] = "idle"

\* ------------------------------------------------------------------ C9
\* The class_ constructor calls made so far.
DeclCount == Len(declLog["T1"]) + Len(declLog["T2"])

\* C9: a step makes at most one class_ constructor call, made by a thread
\* that is constructing T and whose commit() call ends with that step: with
\* the static returned when the constructor succeeded, and otherwise with
\* the very error the constructor threw, no other thread receiving anything;
\* and there are never more constructor calls than commit() calls.
C9_FailurePropagates ==
    [][/\ DeclCount' <= ncalls'
       /\ DeclCount' <= DeclCount + 1
       /\ \A T \in Types :
            LET n == Len(declLog[T])
            IN  Len(declLog'[T]) # n =>
                  /\ Len(declLog'[T]) = n + 1
                  /\ \E t \in Threads :
                       /\ pc[t] = "ctor" /\ args[t].type = T
                       /\ pc'[t] = "idle"
                       /\ \A u \in Threads \ {t} :
                            pc'[u] = pc[u] /\ exc'[u] = exc[u] /\ ref'[u] = ref[u]
                       /\ IF declLog'[T][n + 1] = "ok"
                          THEN exc'[t] = None /\ ref'[t] = derived(T)
                          ELSE /\ exc'[t] = declLog'[T][n + 1]
                               /\ exc'[t] \in Errors
                               /\ ref'[t] = ref[t]
    ]_vars

\* Both errors have left a commit() call.
C9_Witness ==
    /\ \E t \in Threads : pc[t] = "idle" /\ exc[t] = "NameTaken"
    /\ \E t \in Threads : pc[t] = "idle" /\ exc[t] = "InvalidModule"

\* ----------------------------------------------------------------- C10
\* C10: for every type at most one class_ constructor call has succeeded and
\* at most one class exists in the host modules.
C10_AtMostOneHandle ==
    \A T \in Types :
        /\ Cardinality(OkDecls(T)) <= 1
        /\ Cardinality(ClassesOf(T)) = Cardinality(OkDecls(T))

\* T1 was constructed at the third attempt, after a race.
C10_Witness ==
    /\ "T1" \in raced
    /\ declLog["T1"] = <<"InvalidModule", "InvalidModule", "ok">>
    /\ Cardinality(ClassesOf("T1")) = 1

\* ----------------------------------------------------------------- C11
\* How many entries of the sequence q are the (method, name) pair m.
Occurrences(q, m) ==
    Cardinality({i \in DOMAIN q : q[i].method = m[1] /\ q[i].name = m[2]})

\* C11: the member table of T's class has one entry for every def*() call
\* made on an object of type T, neither more nor fewer, and every (METHOD,
\* name) pair is in it as often as it was passed, a repeated name included;
\* before the class exists no def*() call has been made.
C11_OneEntryPerCall ==
    \A T \in Types :
        /\ ClassesOf(T) = {} => memberLog[T] = <<>>
        /\ \A h \in ClassesOf(T) :
             /\ Len(classes[h].members) = Len(memberLog[T])
             /\ \A m \in MemberCalls :
                  Occurrences(classes[h].members, m) = Occurrences(memberLog[T], m)

\* The name "a" was registered three times on T1, twice with def and once
\* with def_property.
C11_Witness ==
    \E h \in ClassesOf("T1") :
        /\ Len(classes[h].members) = 3
        /\ Occurrences(classes[h].members, <<"def", "a">>) = 2
        /\ Occurrences(classes[h].members, <<"def_property", "a">>) = 1

\* ----------------------------------------------------------------- C12
\* The threads running the constructor of T's static.
Constructors(T) == {t \in Threads : pc[t] = "ctor" /\ args[t].type = T}

\* How often T has gone from Unconstructed to Constructing: every time the
\* guard was taken the class_ constructor was called once, or is about to be.
Attempts(T) == Len(declLog[T]) + (IF Constructing(T) THEN 1 ELSE 0)

\* C12 as stated: T goes from Unconstructed to Constructing once over the
\* whole execution.
C12_ConstructingOnce ==
    \A T \in Types : Attempts(T) <= 1

\* C12 amended: T is Constructing exactly while one thread, the winner of the
\* race, runs the constructor; T has gone from Unconstructed to Constructing
\* once for every class_ constructor call that threw and once more for the
\* attempt that is running or has succeeded; and none follows the one that
\* succeeded.
C12_OneConstructorAtATime ==
    \A T \in Types :
        /\ Cardinality(Constructors(T)) = (IF Constructing(T) THEN 1 ELSE 0)
        /\ Attempts(T) = Cardinality(FailedDecls(T))
                           + (IF Unconstructed(T) THEN 0 ELSE 1)
        /\ Registered(T) <=> OkDecls(T) # {}
        /\ OkDecls(T) \subseteq {Len(declLog[T])}

\* After a failed attempt for T1 one thread constructs again while another
\* waits on the guard.
C12_Witness ==
    /\ FailedDecls("T1") # {}
    /\ Cardinality(Constructors("T1")) = 1
    /\ \E t \in Threads : pc[t] = "wait" /\ args[t].type = "T1"

\* ----------------------------------------------------------------- C13
\* C13: a step taken while T is Registered leaves T Registered, makes no
\* class_ constructor call for T, and leaves the static, its m_cls and the
\* declaration of T's class as they were; and a step in which a def*() call
\* reaches T's class is taken with T Registered, after the class_ constructor
\* call that made the class succeeded.
C13_RegisteredIsTerminal ==
    [][\A T \in Types :
         /\ Registered(T) =>
              /\ Registered(T)'
              /\ declLog'[T] = declLog[T]
              /\ objs'[derived(T)] = objs[derived(T)]
              /\ ClassesOf(T)' = ClassesOf(T)
              /\ \A h \in ClassesOf(T) :
                   /\ classes'[h].mod = classes[h].mod
                   /\ classes'[h].name = classes[h].name
                   /\ classes'[h].doc = classes[h].doc
         /\ \A h \in ClassesOf(T) :
              classes'[h].members # classes[h].members =>
                  /\ Registered(T)
                  /\ OkDecls(T) # {}
                  /\ h = objs[derived(T)].m_cls
    ]_vars

\* T1 is Registered, a later commit() for it has returned and a member has
\* been registered on it.
C13_Witness ==
    /\ Registered("T1")
    /\ Len(retLog["T1"]) = 2
    /\ Len(memberLog["T1"]) = 1
    /\ \E h \in ClassesOf("T1") : Len(classes[h].members) = 1

\* ----------------------------------------------------------------- C14
\* The objects of wrapper type T that exist.
Instances(T) == {o \in Objects : objs[o].type = T}

\* C14 as stated: at most one object of each wrapper type exists.
C14_SingleInstance ==
    \A T \in Types : Cardinality(Instances(T)) <= 1

\* C14 amended: commit() makes and returns one object per wrapper type, its
\* static, which stays where it is; every other object of the type was made
\* by the copy constructor from an existing one, after the static was
\* constructed, and holds the same m_cls as the static, which a copy
\* assignment between two objects of the type therefore leaves unchanged.
C14_OneInstancePerCommit ==
    \A T \in Types :
        /\ ReturnedObjs(T) \subseteq {derived(T)}
        /\ Instances(T) \subseteq {derived(T)} \cup CopyIds
        /\ Instances(T) # {} => derived(T) \in Instances(T) /\ Registered(T)
        /\ \A o \in Instances(T) : objs[o].m_cls = objs[derived(T)].m_cls
        /\ Cardinality(ClassesOf(T)) <= 1

\* T1 was constructed, copied, and one of the two objects was assigned from
\* the other.
C14_Witness ==
    /\ Instances("T1") = {derived("T1"), CopyName(1)}
    /\ ncalls = 3
    /\ declLog = [T \in Types |-> IF T = "T1" THEN <<"ok">> ELSE <<>>]
    /\ Len(retLog["T1"]) = 1 /\ retLog["T2"] = <<>>
    /\ memberLog = [T \in Types |-> <<>>]
    /\ \A t \in Threads : pc[t] = "idle"

\* ----------------------------------------------------------------- C15
\* C15: every object of a wrapper type that exists holds in m_cls the class
\* that a class_ constructor call for its type created, in the module passed
\* to the commit() call that constructed the static; no object exists whose
\* m_cls is unset, and none of a type for which no class_ constructor call
\* has succeeded.
C15_NoInstanceWithoutModule ==
    \A o \in Objects :
        objs[o] # NoObj =>
            LET T == objs[o].type
                h == objs[o].m_cls
            IN  /\ T \in Types
                /\ OkDecls(T) # {}
                /\ h \in ClassesOf(T)
                /\ retLog[T] # <<>>
                /\ classes[h].mod = retLog[T][1].call.mod
                /\ classes[h].mod \in {a[1] : a \in CallArgs}

\* T2 was constructed in module M2 after a failed attempt, and copied.
C15_Witness ==
    /\ declLog["T2"] = <<"InvalidModule", "ok">>
    /\ objs[derived("T2")] # NoObj
    /\ objs[CopyName(1)].type = "T2"
    /\ classes[objs[CopyName(1)].m_cls].mod = "M2"

\* ----------------------------------------------------------------- C16
\* The threads whose last commit() call ended with an exception.
Failed == {t \in Threads : pc[t] = "idle" /\ exc[t] # None}

\* C16: a thread waiting on the guard or constructing has received no
\* exception, whatever happened to the constructions it waited for; no more
\* threads hold an exception than class_ constructor calls have thrown, and
\* what a thread holds is what the class_ constructor threw; a thread that
\* left commit() with a reference refers to a constructed object; the class
\* has the arguments of the call that constructed it; and the class_
\* constructor was called once per failed attempt and succeeded at most once.
C16_FailureStaysWithItsThread ==
    /\ \A t \in Threads : pc[t] \in {"wait", "ctor"} => exc[t] = None
    /\ Cardinality(Failed) <= Cardinality(FailedDecls("T1"))
                                + Cardinality(FailedDecls("T2"))
    /\ \A t \in Failed :
         \E T \in Types : \E i \in FailedDecls(T) : declLog[T][i] = exc[t]
    /\ \A t \in Threads : ref[t] # None => objs[ref[t]] # NoObj
    /\ \A T \in Types :
         /\ Cardinality(OkDecls(T)) <= 1
         /\ Len(declLog[T]) <= Cardinality(FailedDecls(T)) + 1
         /\ \A h \in ClassesOf(T) :
              /\ retLog[T] # <<>>
              /\ classes[h].name = retLog[T][1].call.pyname
              /\ classes[h].doc = retLog[T][1].call.clsdoc

\* Thread 1 ran the construction of T1 and got the failure; thread 2, which
\* waited, constructed T1 with doc "doc2" and holds the instance.
C16_Witness ==
    /\ "T1" \in raced
    /\ declLog["T1"] = <<"InvalidModule", "ok">>
    /\ exc[1] = "InvalidModule" /\ ref[1] = None /\ pc[1] = "idle"
    /\ exc[2] = None /\ ref[2] = derived("T1") /\ pc[2] = "idle"
    /\ \E h \in ClassesOf("T1") : classes[h].doc = "doc2"
    /\ ncalls = 2

\* ----------------------------------------------------------------- C17
\* What the program holds for wrapper type T: the guard and the static of
\* commit(), the class_ constructor calls made for it, the objects of the
\* type, the classes declared for it with their member tables, and the
\* member calls made on its objects.
TypeState(T) ==
    [guard   |-> guard[T],
     decls   |-> declLog[T],
     objects |-> [o \in Instances(T) |-> objs[o]],
     handles |-> [h \in ClassesOf(T) |-> classes[h]],
     members |-> memberLog[T]]

\* C17: a step (a commit() call or its continuation, a throwing class_
\* constructor, a def* call, a copy) changes what the program holds for at
\* most one wrapper type, and commit() of two wrapper types never returned
\* the same object.
C17_TypesAreIndependent ==
    [][\A T \in Types, U \in Types :
         T # U =>
           /\ TypeState(T)' # TypeState(T) => TypeState(U)' = TypeState(U)
           /\ ReturnedObjs(T)' \cap ReturnedObjs(U)' = {}]_vars

\* T1 is registered and has a member; T2 was refused the name T1 had taken,
\* then registered under another name.
C17_Witness ==
    /\ Registered("T1") /\ Registered("T2")
    /\ declLog["T1"] = <<"ok">>
    /\ declLog["T2"] = <<"NameTaken", "ok">>
    /\ Len(memberLog["T1"]) = 1
    /\ memberLog["T2"] = <<>>
    /\ objs[derived("T1")].m_cls # objs[derived("T2")].m_cls

\* ----------------------------------------------------------------- C18
\* A def* call on an object of type T is made in the step.
MemberStep(T) == Len(memberLog[T]') = Len(memberLog[T]) + 1

\* A thread enters commit() of type T, or leaves it with the static, in the
\* step.
AcquireStep(T) ==
    \/ \E t \in Threads : /\ pc[t] = "idle" /\ pc'[t] # "idle"
                          /\ args'[t].type = T
    \/ Len(retLog[T]') = Len(retLog[T]) + 1

\* C18: a def* call makes no class_ constructor call, declares no class and
\* leaves every guard, every object and everything of a class but its member
\* table as it was; a commit() call that finds the static of T initialised
\* returns it in the same step and leaves the classes, member tables
\* included, the objects, the guards and the constructor calls as they were.
C18_MemberAndAcquireApart ==
    [][\A T \in Types :
         /\ MemberStep(T) =>
              /\ declLog' = declLog
              /\ guard' = guard
              /\ objs' = objs
              /\ DOMAIN classes' = DOMAIN classes
              /\ \A h \in DOMAIN classes :
                   classes'[h] = [classes[h] EXCEPT !.members = classes'[h].members]
         /\ (AcquireStep(T) /\ Registered(T)) =>
              /\ classes' = classes
              /\ memberLog' = memberLog
              /\ declLog' = declLog
              /\ guard' = guard
              /\ objs' = objs
              /\ Len(retLog[T]') = Len(retLog[T]) + 1
              /\ retLog[T]'[Len(retLog[T]')].obj = derived(T)
              /\ \A t \in Threads : pc'[t] = "idle" \/ pc'[t] = pc[t]]_vars

\* T1 was registered, given the member "c", acquired again with other
\* arguments, and given the member "a": the class has exactly the two members.
C18_Witness ==
    /\ Len(retLog["T1"]) = 2
    /\ retLog["T1"][2].call.clsdoc # retLog["T1"][1].call.clsdoc
    /\ declLog["T1"] = <<"ok">>
    /\ Len(memberLog["T1"]) = 2
    /\ memberLog["T1"][1].name = "c" /\ memberLog["T1"][2].name = "a"
    /\ Len(classes[objs[derived("T1")].m_cls].members) = 2
    /\ ncalls = 4

====
